---------------------------- MODULE Spec2Model ----------------------------
(***************************************************************************)
(* The freehand-shape recognizer of src/components/MapComponent.js         *)
(* (getBoundingBox, getCenter, distance, isCircleLike, isRectangleLike,    *)
(* isTriangleLike, recognizeShape), the resize handler resizeShape and the *)
(* drawing state machine of the MapComponent (pencil mode, drag, shape     *)
(* store, selection).                                                      *)
(*                                                                         *)
(* Numbers.  A JavaScript Number is an IEEE-754 binary64 value: a sign, a  *)
(* 53-bit significand and an exponent, and every +, -, *, /, Math.sqrt is  *)
(* the exact result rounded to the nearest representable value, ties to    *)
(* even.  The model keeps exactly that arithmetic with a significand of    *)
(* Precision bits instead of 53: a finite number is a record               *)
(* [m |-> significand, e |-> exponent] standing for m * 2^e, kept in the   *)
(* unique form with m odd (or m = 0, e = 0).  The exponent is not bounded: *)
(* the coordinates of the model are nowhere near binary64's overflow or    *)
(* underflow.  NaN and the infinities are the records with m = 0, e # 0.   *)
(* The two zeros of binary64 are one value here: they compare equal, and   *)
(* the only divisors of the code that can be zero are an average of square *)
(* roots and a path length, which are never -0.                            *)
(***************************************************************************)
EXTENDS Integers, Sequences, FiniteSets, TLC

VARIABLES pc, path, perm, result, resultPerm, shapes, selectedShape, orig, factor,
          isPencilMode, isDrawing, currentPath, selectedColor, map, draggable,
          onShapesChange, view, pending, now, runs, called, edits

\* The variables of the recognizer and resize specifications.
recVars == <<pc, path, perm, result, resultPerm, orig, factor>>

\* The variables of the MapComponent other than shapes and selectedShape.
mapVars ==
  <<isPencilMode, isDrawing, currentPath, selectedColor, map, draggable,
    onShapesChange, view, pending, now, runs, called, edits>>

vars == <<recVars, shapes, selectedShape, mapVars>>

\* Bits of the significand (53 in binary64).
Precision == 12

Abs(x) == IF x < 0 THEN -x ELSE x
Min(a, b) == IF a < b THEN a ELSE b
Max(a, b) == IF a > b THEN a ELSE b

\* Only({F(x) : x \in {v}}) is F(v) with v computed once, before F is entered.
Only(S) == CHOOSE x \in S : TRUE

\* Number of bits of n, 0 <= n < 2^30.
BitLen(n) == CHOOSE k \in 0..30 : n < 2^k /\ (k = 0 \/ 2^(k - 1) <= n)

\* Number of trailing zero bits of n, 0 < n < 2^30.
TrailingZeros(n) == CHOOSE t \in 0..29 : n % 2^t = 0 /\ n % 2^(t + 1) # 0

Zero == [m |-> 0, e |-> 0]
NaN == [m |-> 0, e |-> 2]
PosInf == [m |-> 0, e |-> 1]
NegInf == [m |-> 0, e |-> -1]

IsFinite(x) == x.m # 0 \/ x.e = 0

\* m * 2^e in its unique form.
Norm(m, e) ==
  IF m = 0 THEN Zero
  ELSE [m |-> m \div 2^TrailingZeros(Abs(m)), e |-> e + TrailingZeros(Abs(m))]

\* The exact value m * 2^e, m # 0 of n bits, rounded to Precision significant
\* bits, to nearest, ties to even.
RoundBits(m, e, n) ==
  IF n <= Precision THEN Norm(m, e)
  ELSE LET s == n - Precision
           q == 2^s
           lo == Abs(m) \div q
           r == Abs(m) % q
           half == q \div 2
           up == r > half \/ (r = half /\ lo % 2 = 1)
           mag == IF up THEN lo + 1 ELSE lo
       IN Norm(IF m < 0 THEN -mag ELSE mag, e + s)

Round(m, e) == IF m = 0 THEN Zero ELSE RoundBits(m, e, BitLen(Abs(m)))

FromInt(n) == Only({Round(x, 0) : x \in {n}})

One == FromInt(1)

\* Position of the leading bit of a finite nonzero number.
Msb(x) == BitLen(Abs(x.m)) + x.e

\* 1, 0 or -1 for a finite number or an infinity (2 for NaN).
Sign(x) == IF x.m > 0 THEN 1 ELSE IF x.m < 0 THEN -1 ELSE x.e

InfOf(sign) == IF sign = 0 THEN NaN ELSE IF sign > 0 THEN PosInf ELSE NegInf

FNeg(x) == [m |-> -x.m, e |-> x.e]

FAbs(x) == [m |-> Abs(x.m), e |-> x.e]

\* a + b of two values.  An operand below a quarter of the other's last place
\* cannot change the rounded sum.
AddV(a, b) ==
  IF a = NaN \/ b = NaN THEN NaN
  ELSE IF ~IsFinite(a) THEN (IF IsFinite(b) \/ a = b THEN a ELSE NaN)
  ELSE IF ~IsFinite(b) THEN b
  ELSE IF a.m = 0 THEN b
  ELSE IF b.m = 0 THEN a
  ELSE IF Msb(a) - Msb(b) > Precision + 1 THEN a
  ELSE IF Msb(b) - Msb(a) > Precision + 1 THEN b
  ELSE LET e == Min(a.e, b.e)
       IN Round(a.m * 2^(a.e - e) + b.m * 2^(b.e - e), e)

FAdd(a, b) == Only({AddV(x, y) : x \in {a}, y \in {b}})

FSub(a, b) == Only({AddV(x, FNeg(y)) : x \in {a}, y \in {b}})

MulV(a, b) ==
  IF a = NaN \/ b = NaN THEN NaN
  ELSE IF ~IsFinite(a) \/ ~IsFinite(b) THEN InfOf(Sign(a) * Sign(b))
  ELSE Round(a.m * b.m, a.e + b.e)

FMul(a, b) == Only({MulV(x, y) : x \in {a}, y \in {b}})

\* (n / d) * 2^e correctly rounded, n and d integers, d # 0: the quotient is
\* taken to Precision + 2 bits and a sticky bit for the remainder.
DivRound(n, d, e) ==
  IF n = 0 THEN Zero
  ELSE Only({LET num == Abs(n) * 2^k
                 q == num \div Abs(d)
                 mag == 2 * q + (IF num % Abs(d) # 0 THEN 1 ELSE 0)
             IN Round(IF (n < 0) # (d < 0) THEN -mag ELSE mag, e - k - 1) :
               k \in {Max(0, Precision + 2 + BitLen(Abs(d)) - BitLen(Abs(n)))}})

\* a / b of two values, with JavaScript's results for a zero divisor.
DivV(a, b) ==
  IF a = NaN \/ b = NaN THEN NaN
  ELSE IF ~IsFinite(a)
  THEN (IF ~IsFinite(b) THEN NaN ELSE InfOf(Sign(a) * (IF b.m < 0 THEN -1 ELSE 1)))
  ELSE IF ~IsFinite(b) THEN Zero
  ELSE IF b.m = 0 THEN InfOf(Sign(a))
  ELSE DivRound(a.m, b.m, a.e - b.e)

FDiv(a, b) == Only({DivV(x, y) : x \in {a}, y \in {b}})

\* A decimal literal num/den of the source, as the parser rounds it.
Lit(num, den) == DivRound(num, den, 0)

\* Floor of the square root of n >= 0, by Newton's iteration from above.
RECURSIVE NewtonSqrt(_, _)
NewtonSqrt(n, x) ==
  Only({IF y >= x THEN x ELSE NewtonSqrt(n, y) : y \in {(x + n \div x) \div 2}})

ISqrt(n) == IF n = 0 THEN 0 ELSE NewtonSqrt(n, 2^((BitLen(n) + 1) \div 2))

\* Math.sqrt of a value, correctly rounded.
SqrtV(a) ==
  IF ~IsFinite(a) THEN (IF a = PosInf THEN PosInf ELSE NaN)
  ELSE IF a.m = 0 THEN Zero
  ELSE IF a.m < 0 THEN NaN
  ELSE Only({Only({Round(2 * s + (IF s * s # a.m * 2^k THEN 1 ELSE 0),
                         ((a.e - k) \div 2) - 1) : s \in {ISqrt(a.m * 2^k)}}) :
               k \in {LET k0 == Max(0, 2 * Precision + 1 - BitLen(a.m))
                      IN IF (a.e - k0) % 2 = 0 THEN k0 ELSE k0 + 1}})

FSqrt(a) == Only({SqrtV(x) : x \in {a}})

\* a < b of two values as JavaScript evaluates it: false when either is NaN.
LessV(a, b) ==
  IF a = NaN \/ b = NaN THEN FALSE
  ELSE IF a = PosInf \/ b = NegInf THEN FALSE
  ELSE IF a = NegInf \/ b = PosInf THEN TRUE
  ELSE AddV(a, FNeg(b)).m < 0

FLess(a, b) == \E x \in {a}, y \in {b} : LessV(x, y)

FGreater(a, b) == FLess(b, a)

FMax(a, b) == Only({IF LessV(x, y) THEN y ELSE x : x \in {a}, y \in {b}})

FMin(a, b) == Only({IF LessV(y, x) THEN y ELSE x : x \in {a}, y \in {b}})

-----------------------------------------------------------------------------
(***************************************************************************)
(* The recognizer.  A point is [lat |-> number, lng |-> number]; a path is *)
(* a sequence of points in drawing order.                                  *)
(***************************************************************************)
Pt(lat, lng) == [lat |-> lat, lng |-> lng]

Lats(p) == [i \in 1..Len(p) |-> p[i].lat]

Lngs(p) == [i \in 1..Len(p) |-> p[i].lng]

\* ((acc + s[lo]) + s[lo + 1]) + ... + s[hi]: the left fold of
\* s.reduce((a, b) => a + b, acc) over s[lo..hi], one addition and one
\* rounding per element in index order.  The range is halved only to keep the
\* evaluation shallow: the left half is summed first and its sum is the
\* accumulator the right half starts from.
RECURSIVE FoldAdd(_, _, _, _)
FoldAdd(s, lo, hi, acc) ==
  IF lo > hi THEN acc
  ELSE IF lo = hi THEN FAdd(acc, s[lo])
  ELSE Only({FoldAdd(s, (lo + hi) \div 2 + 1, hi, left) :
               left \in {FoldAdd(s, lo, (lo + hi) \div 2, acc)}})

\* s.reduce((a, b) => a + b, 0) over the first n elements.
SumTo(s, n) == FoldAdd(s, 1, n, Zero)

\* Math.max(...s) and Math.min(...s) over s[lo..hi], lo <= hi.
RECURSIVE MaxOver(_, _, _)
MaxOver(s, lo, hi) ==
  IF lo = hi THEN s[lo]
  ELSE Only({FMax(a, b) : a \in {MaxOver(s, lo, (lo + hi) \div 2)},
                          b \in {MaxOver(s, (lo + hi) \div 2 + 1, hi)}})

RECURSIVE MinOver(_, _, _)
MinOver(s, lo, hi) ==
  IF lo = hi THEN s[lo]
  ELSE Only({FMin(a, b) : a \in {MinOver(s, lo, (lo + hi) \div 2)},
                          b \in {MinOver(s, (lo + hi) \div 2 + 1, hi)}})

MaxTo(s, n) == MaxOver(s, 1, n)

MinTo(s, n) == MinOver(s, 1, n)

getBoundingBox(p) ==
  [north |-> MaxTo(Lats(p), Len(p)), south |-> MinTo(Lats(p), Len(p)),
   east |-> MaxTo(Lngs(p), Len(p)), west |-> MinTo(Lngs(p), Len(p))]

getCenter(p) ==
  Pt(FDiv(SumTo(Lats(p), Len(p)), FromInt(Len(p))),
     FDiv(SumTo(Lngs(p), Len(p)), FromInt(Len(p))))

\* Math.pow(x, 2) is the correctly rounded square.
Sq(x) == Only({MulV(v, v) : v \in {x}})

distance(p1, p2) ==
  FSqrt(FAdd(Sq(FSub(p1.lat, p2.lat)), Sq(FSub(p1.lng, p2.lng))))

\* The thresholds of the three tests.
MinCirclePoints == 10
MinRectanglePoints == 4
MinTrianglePoints == 3
CirclePoints == 32

CircleCoefficient == Lit(25, 100)
RectTolerance == Lit(15, 100)
RectEdgeRatio == Lit(7, 10)
TriangleFlatness == Lit(2, 10)
TriangleSlack == Lit(13, 10)
TriangleEdgeRatio == Lit(6, 10)

\* isCircleLike returns null or {center, radius}; ok tells which.
NoCircle == [ok |-> FALSE, center |-> Pt(Zero, Zero), radius |-> Zero]

\* The statistics of the circle test: center, avgRadius and the coefficient
\* of variation stdDev / avgRadius (NaN when avgRadius and stdDev are 0).
coefficientOf(distances, n, avgRadius) ==
  LET sq == [i \in 1..n |-> Sq(FSub(distances[i], avgRadius))]
      variance == FDiv(SumTo(sq, n), FromInt(n))
      stdDev == FSqrt(variance)
  IN FDiv(stdDev, avgRadius)

\* statsOf with the first distance in place of the average of the distances.
statsOfFirstDistance(distances, n, center) ==
  Only({[center |-> center, radius |-> avgRadius,
         coefficient |-> coefficientOf(distances, n, avgRadius)] :
          avgRadius \in {distances[1]}})

statsOf(distances, n, center) ==
  Only({[center |-> center, radius |-> avgRadius,
         coefficient |-> coefficientOf(distances, n, avgRadius)] :
          avgRadius \in {FDiv(SumTo(distances, n), FromInt(n))}})

statsAround(p, center) ==
  Only({statsOf(distances, Len(p), center) :
          distances \in {SubSeq([i \in 1..Len(p) |-> distance(p[i], center)], 1, Len(p))}})

circleStats(p) == Only({statsAround(p, center) : center \in {getCenter(p)}})

\* isCircleLike with its length guard off by one: paths of nine points are
\* tested as well.
isCircleLikeFromNine(p) ==
  IF Len(p) < MinCirclePoints - 1 THEN NoCircle
  ELSE Only({IF FLess(st.coefficient, CircleCoefficient)
             THEN [ok |-> TRUE, center |-> st.center, radius |-> st.radius]
             ELSE NoCircle : st \in {circleStats(p)}})

isCircleLike(p) ==
  IF Len(p) < MinCirclePoints THEN NoCircle
  ELSE Only({IF FLess(st.coefficient, CircleCoefficient)
             THEN [ok |-> TRUE, center |-> st.center, radius |-> st.radius]
             ELSE NoCircle : st \in {circleStats(p)}})

idealRect(p) ==
  Only({<<Pt(box.north, box.west), Pt(box.north, box.east),
          Pt(box.south, box.east), Pt(box.south, box.west)>> :
          box \in {getBoundingBox(p)}})

\* The point q is within tolerance of one of the four edge lines of box.
nearBox(q, box, tolerance) ==
  \/ FLess(FAbs(FSub(q.lat, box.north)), tolerance)
  \/ FLess(FAbs(FSub(q.lat, box.south)), tolerance)
  \/ FLess(FAbs(FSub(q.lng, box.west)), tolerance)
  \/ FLess(FAbs(FSub(q.lng, box.east)), tolerance)

edgeRatioIn(p, box, tolerance) ==
  LET edgePoints == Cardinality({i \in 1..Len(p) : nearBox(p[i], box, tolerance)})
  IN FDiv(FromInt(edgePoints), FromInt(Len(p)))

\* toleranceOf with the shorter side of the box in place of the longer.
toleranceOfShorter(box) ==
  LET width == FSub(box.east, box.west)
      height == FSub(box.north, box.south)
  IN FMul(FMin(width, height), RectTolerance)

toleranceOf(box) ==
  LET width == FSub(box.east, box.west)
      height == FSub(box.north, box.south)
  IN FMul(FMax(width, height), RectTolerance)

\* edgePoints / path.length of the rectangle test.
rectEdgeRatio(p) ==
  Only({Only({edgeRatioIn(p, box, tolerance) : tolerance \in {toleranceOf(box)}}) :
          box \in {getBoundingBox(p)}})

\* isRectangleLike with its length guard off by two: paths of two and three
\* points are tested as well.
isRectangleLikeFromTwo(p) ==
  IF Len(p) < MinRectanglePoints - 2 THEN <<>>
  ELSE IF FGreater(rectEdgeRatio(p), RectEdgeRatio) THEN idealRect(p)
  ELSE <<>>

\* isRectangleLike with edgeRatio >= 0.7 in place of edgeRatio > 0.7.
isRectangleLikeInclusive(p) ==
  IF Len(p) < MinRectanglePoints THEN <<>>
  ELSE IF ~FLess(rectEdgeRatio(p), RectEdgeRatio) THEN idealRect(p)
  ELSE <<>>

\* isRectangleLike returns null (the empty sequence here) or the four corners.
isRectangleLike(p) ==
  IF Len(p) < MinRectanglePoints THEN <<>>
  ELSE IF FGreater(rectEdgeRatio(p), RectEdgeRatio) THEN idealRect(p)
  ELSE <<>>

\* BestOver keeping the later of two points of equal score.
RECURSIVE BestOverLatest(_, _, _, _)
BestOverLatest(score, lo, hi, best) ==
  IF lo > hi THEN best
  ELSE IF lo = hi THEN (IF ~FLess(score[lo], score[best]) THEN lo ELSE best)
  ELSE Only({BestOverLatest(score, (lo + hi) \div 2 + 1, hi, left) :
               left \in {BestOverLatest(score, lo, (lo + hi) \div 2, best)}})

\* path.reduce((best, p) => score(p) > score(best) ? p : best, path[0]), as
\* the index of the point kept: scanning lo..hi in order from the index best,
\* a later point replaces the kept one only when its score is strictly
\* greater, so the earliest maximum is kept.
RECURSIVE BestOver(_, _, _, _)
BestOver(score, lo, hi, best) ==
  IF lo > hi THEN best
  ELSE IF lo = hi THEN (IF FGreater(score[lo], score[best]) THEN lo ELSE best)
  ELSE Only({BestOver(score, (lo + hi) \div 2 + 1, hi, left) :
               left \in {BestOver(score, lo, (lo + hi) \div 2, best)}})

BestTo(score, n) == BestOver(score, 1, n, 1)

\* corners with the score of the bottom-left candidate used for the
\* bottom-right one as well.
cornersLeftTwice(p) ==
  <<p[BestTo(Lats(p), Len(p))],
    p[BestTo([i \in 1..Len(p) |-> FSub(FNeg(p[i].lat), p[i].lng)], Len(p))],
    p[BestTo([i \in 1..Len(p) |-> FSub(FNeg(p[i].lat), p[i].lng)], Len(p))]>>

\* The corner candidates: top, bottom-left, bottom-right.
corners(p) ==
  <<p[BestTo(Lats(p), Len(p))],
    p[BestTo([i \in 1..Len(p) |-> FSub(FNeg(p[i].lat), p[i].lng)], Len(p))],
    p[BestTo([i \in 1..Len(p) |-> FAdd(FNeg(p[i].lat), p[i].lng)], Len(p))]>>

\* d1, d2, d3 of the triangle test, from the three corner candidates c.
cornerDists(c) ==
  <<distance(c[1], c[2]), distance(c[2], c[3]), distance(c[3], c[1])>>

minDist(d) == FMin(FMin(d[1], d[2]), d[3])

maxDist(d) == FMax(FMax(d[1], d[2]), d[3])

\* The point q is close to one of the three lines between the candidates c,
\* whose lengths are d.
nearLine(q, c, d) ==
  \E i \in 1..3 :
     FLess(FAdd(distance(q, c[i]), distance(q, c[(i % 3) + 1])),
           FMul(d[i], TriangleSlack))

edgeRatioOn(p, c, d) ==
  LET edgePoints == Cardinality({i \in 1..Len(p) : nearLine(p[i], c, d)})
  IN FDiv(FromInt(edgePoints), FromInt(Len(p)))

\* The corner candidates, minDist / maxDist (NaN when the three candidates
\* coincide) and edgePoints / path.length of the triangle test.
triangleStats(p) ==
  Only({Only({[corners |-> c,
               flatness |-> FDiv(minDist(d), maxDist(d)),
               edgeRatio |-> edgeRatioOn(p, c, d)] : d \in {cornerDists(c)}}) :
          c \in {corners(p)}})

flatness(p) == triangleStats(p).flatness

triEdgeRatio(p) == triangleStats(p).edgeRatio

\* isTriangleLike without its minDist / maxDist > 0.2 check.
isTriangleLikeAnyFlatness(p) ==
  IF Len(p) < MinTrianglePoints THEN <<>>
  ELSE Only({IF FGreater(st.edgeRatio, TriangleEdgeRatio)
             THEN st.corners
             ELSE <<>> : st \in {triangleStats(p)}})

\* isTriangleLike returns null (the empty sequence here) or the three corners.
isTriangleLike(p) ==
  IF Len(p) < MinTrianglePoints THEN <<>>
  ELSE Only({IF FGreater(st.flatness, TriangleFlatness)
                /\ FGreater(st.edgeRatio, TriangleEdgeRatio)
             THEN st.corners
             ELSE <<>> : st \in {triangleStats(p)}})

\* Math.cos and Math.sin at the angles (i / 32) * 2 * Math.PI, from the first
\* quadrant's values cos(k * pi / 16), k = 1..7, given to 16 binary places and
\* rounded to the significand.  The rounding of the angle itself is left out:
\* it moves a value by less than one unit in its last place (cos(pi / 2) is 0
\* here, 6.1e-17 in binary64).
QuarterCos ==
  <<Round(64277, -16), Round(60547, -16), Round(54491, -16), Round(46341, -16),
    Round(36410, -16), Round(25080, -16), Round(12785, -16)>>

Cos32(i) ==
  LET j == i % CirclePoints
      q(k) == IF k = 0 THEN One ELSE IF k = 8 THEN Zero ELSE QuarterCos[k]
  IN IF j <= 8 THEN q(j)
     ELSE IF j <= 16 THEN FNeg(q(16 - j))
     ELSE IF j <= 24 THEN FNeg(q(j - 16))
     ELSE q(32 - j)

Sin32(i) == Cos32(i + 24)

\* circlePoints with the loop bound inclusive (i <= numPoints): 33 points.
circlePointsInclusive(circle) ==
  Only({[i \in 1..(CirclePoints + 1) |->
           Pt(FAdd(c.center.lat, FMul(c.radius, Cos32(i - 1))),
              FAdd(c.center.lng, FMul(c.radius, Sin32(i - 1))))] : c \in {circle}})

circlePoints(circle) ==
  Only({[i \in 1..CirclePoints |->
           Pt(FAdd(c.center.lat, FMul(c.radius, Cos32(i - 1))),
              FAdd(c.center.lng, FMul(c.radius, Sin32(i - 1))))] : c \in {circle}})

\* recognizeShape with the rectangle test tried before the circle test.
recognizeShapeRectFirst(p) ==
  LET circle == isCircleLike(p)
      rect == isRectangleLike(p)
      triangle == isTriangleLike(p)
  IN IF rect # <<>> THEN [type |-> "rectangle", path |-> rect]
     ELSE IF circle.ok THEN [type |-> "circle", path |-> circlePoints(circle)]
     ELSE IF triangle # <<>> THEN [type |-> "triangle", path |-> triangle]
     ELSE [type |-> "freehand", path |-> p]

\* recognizeShape without the null check on the triangle test's result: what
\* isTriangleLike returned is the triangle's path, and freehand is never reached.
recognizeShapeNoFallback(p) ==
  LET circle == isCircleLike(p)
      rect == isRectangleLike(p)
      triangle == isTriangleLike(p)
  IN IF circle.ok THEN [type |-> "circle", path |-> circlePoints(circle)]
     ELSE IF rect # <<>> THEN [type |-> "rectangle", path |-> rect]
     ELSE [type |-> "triangle", path |-> triangle]

recognizeShape(p) ==
  LET circle == isCircleLike(p)
      rect == isRectangleLike(p)
      triangle == isTriangleLike(p)
  IN IF circle.ok THEN [type |-> "circle", path |-> circlePoints(circle)]
     ELSE IF rect # <<>> THEN [type |-> "rectangle", path |-> rect]
     ELSE IF triangle # <<>> THEN [type |-> "triangle", path |-> triangle]
     ELSE [type |-> "freehand", path |-> p]

-----------------------------------------------------------------------------
(***************************************************************************)
(* Input paths.                                                            *)
(***************************************************************************)
\* Short paths: every path of one, two or three points on the integer grid
\* 0..GridMax x 0..GridMax.
GridMax == 2

GridPoints == {Pt(FromInt(a), FromInt(b)) : a, b \in 0..GridMax}

ShortPaths == UNION {[1..n -> GridPoints] : n \in 1..3}

\* k points on each edge of the closed polygon vs, evenly spaced, starting at
\* each vertex; the vertices are pairs <<lat, lng>> in units of 1/D.
Perimeter(vs, k, D) ==
  [i \in 1..(Len(vs) * k) |->
     LET a == vs[((i - 1) \div k) + 1]
         b == vs[(((i - 1) \div k + 1) % Len(vs)) + 1]
         j == (i - 1) % k
     IN Pt(Lit(a[1] * k + (b[1] - a[1]) * j, D * k),
           Lit(a[2] * k + (b[2] - a[2]) * j, D * k))]

\* Axis-aligned rectangles of width w and height h, both in 1..MaxSide, with
\* 1..MaxPerEdge points on each edge.
MaxSide == 4
MaxPerEdge == 5

RectPerimeter(w, h, k) ==
  Perimeter(<<<<0, 0>>, <<0, w>>, <<h, w>>, <<h, 0>>>>, k, 1)

RectangleInputs ==
  {RectPerimeter(w, h, k) : w \in 1..MaxSide, h \in 1..MaxSide, k \in 1..MaxPerEdge}

\* Near-equilateral triangles, apex up: base w, height h2/2 close to
\* w * sqrt(3)/2, as the pairs <<w, h2>>.
TriangleDims == {<<8, 14>>, <<6, 10>>, <<4, 7>>}

TrianglePerimeter(w, h2, k) ==
  Perimeter(<<<<0, 0>>, <<0, 2 * w>>, <<h2, w>>>>, k, 2)

TriangleInputs ==
  {TrianglePerimeter(d[1], d[2], k) : d \in TriangleDims, k \in 1..MaxPerEdge}

\* Synthetic circles: the 32 generated points of a circle, and every second
\* or third of them (16 and 11 points).
Every(p, step) == [i \in 1..((Len(p) + step - 1) \div step) |-> p[(i - 1) * step + 1]]

CircleSpecs ==
  {[ok |-> TRUE, center |-> Pt(FromInt(c[1]), FromInt(c[2])), radius |-> r] :
     c \in {<<0, 0>>, <<2, 1>>}, r \in {One, FromInt(2), Lit(3, 2)}}

CircleInputs == {Every(circlePoints(c), step) : c \in CircleSpecs, step \in 1..3}

\* One point repeated n times, n in 1..MaxCoincide.
MaxCoincide == 12

FinePoints ==
  {Pt(One, One), Pt(Lit(1, 10), Lit(1, 10)), Pt(Lit(1, 3), Lit(2, 3)),
   Pt(Lit(3977, 100), Lit(-8616, 100))}

Repeat(q, n) == [i \in 1..n |-> q]

CoincidentInputs == {Repeat(q, n) : q \in FinePoints, n \in 1..MaxCoincide}

\* Rings: the twelve integer points at distance 5 from the origin, in drawing
\* order, scaled by s and moved to the center c.  Dropping opposite pairs of
\* points keeps the centroid at c; an arc is the first n points of a ring.
RingUnit ==
  <<<<5, 0>>, <<4, 3>>, <<3, 4>>, <<0, 5>>, <<-3, 4>>, <<-4, 3>>,
    <<-5, 0>>, <<-4, -3>>, <<-3, -4>>, <<0, -5>>, <<3, -4>>, <<4, -3>>>>

Ring(c, s) ==
  [i \in 1..12 |-> Pt(FromInt(c[1] + s * RingUnit[i][1]),
                      FromInt(c[2] + s * RingUnit[i][2]))]

Keep(p, kept) == [i \in 1..Len(kept) |-> p[kept[i]]]

RingCenters == {<<0, 0>>, <<3000, 3000>>}

RingScales == {1, 20}

\* Two opposite points at distance d of c on the meridian of c, each drawn
\* five times, one after the other or alternating.
TwoPoint(c, d, alternate) ==
  [i \in 1..10 |->
     IF (alternate /\ i % 2 = 1) \/ (~alternate /\ i <= 5)
     THEN Pt(FromInt(c[1] - d), FromInt(c[2]))
     ELSE Pt(FromInt(c[1] + d), FromInt(c[2]))]

RingInputs ==
  UNION {{Ring(c, s),
          Keep(Ring(c, s), <<1, 2, 3, 4, 5, 7, 8, 9, 10, 11>>),
          Keep(Ring(c, s), <<1, 2, 4, 5, 7, 8, 10, 11>>),
          SubSeq(Ring(c, s), 1, 9),
          TwoPoint(c, 5 * s, TRUE), TwoPoint(c, 5 * s, FALSE),
          TwoPoint(c, s, TRUE), TwoPoint(c, s, FALSE)} :
           c \in RingCenters, s \in RingScales}

\* Boxes with points inside: the four corners of the square of side BoxSide,
\* then a points on an edge, b points at 0.15 * BoxSide from an edge and c
\* points at the middle of the square.
BoxSide == 20

Mixed(a, b, c) ==
  <<Pt(Zero, Zero), Pt(Zero, FromInt(BoxSide)),
    Pt(FromInt(BoxSide), FromInt(BoxSide)), Pt(FromInt(BoxSide), Zero)>>
    \o Repeat(Pt(Zero, FromInt(BoxSide \div 2)), a)
    \o Repeat(Pt(FromInt((15 * BoxSide) \div 100), FromInt(BoxSide \div 2)), b)
    \o Repeat(Pt(FromInt(BoxSide \div 2), FromInt(BoxSide \div 2)), c)

MixedInputs == {Mixed(a, b, c) : a \in 0..3, b \in 0..3, c \in 0..3}

\* Lines: 4..MaxLine points on one parallel or one meridian, at the places
\* 0, 1/d, 2/d, ... drawn in order or the odd places first, d in {1, 3}.
MaxLine == 11

LinePlace(i, n, shuffled) ==
  IF ~shuffled THEN i - 1
  ELSE IF 2 * i - 1 <= n THEN 2 * i - 2 ELSE 2 * (i - (n + 1) \div 2) - 1

Line(n, d, fixed, meridian, shuffled) ==
  [i \in 1..n |->
     IF meridian THEN Pt(Lit(LinePlace(i, n, shuffled), d), fixed)
     ELSE Pt(fixed, Lit(LinePlace(i, n, shuffled), d))]

LineInputs ==
  {Line(n, d, fixed, meridian, shuffled) :
     n \in 4..MaxLine, d \in {1, 3}, fixed \in {Zero, Lit(3977, 100)},
     meridian \in BOOLEAN, shuffled \in BOOLEAN}

\* Neighbours: two points of one latitude whose longitudes differ by less
\* than the last place of the latitude, the first drawn again at the end.
NeighbourInputs ==
  {<<Pt(FromInt(24000), Zero), Pt(FromInt(24000), One), Pt(FromInt(24000), Zero)>>,
   <<Pt(FromInt(24000), Zero), Pt(FromInt(24000), One), Pt(FromInt(24000), One),
     Pt(FromInt(24000), Zero)>>}

RecognizerInputs ==
  ShortPaths \cup RectangleInputs \cup TriangleInputs \cup CircleInputs
    \cup CoincidentInputs \cup RingInputs \cup MixedInputs \cup LineInputs
    \cup NeighbourInputs

-----------------------------------------------------------------------------
(***************************************************************************)
(* The MapComponent before anything is drawn.  The handlers of a rendered  *)
(* component are closures over the values of the last render: view is that *)
(* record of values, Snapshot the record a render would take now.          *)
(***************************************************************************)
Snapshot ==
  [isPencilMode |-> isPencilMode, isDrawing |-> isDrawing,
   currentPath |-> currentPath, selectedShape |-> selectedShape,
   selectedColor |-> selectedColor, shapes |-> shapes, map |-> map]

\* The state of a mounted component: useState's initial values, no map
\* loaded yet, an empty store.
InitialMap ==
  /\ isPencilMode = FALSE
  /\ isDrawing = FALSE
  /\ currentPath = <<>>
  /\ selectedColor = "red"
  /\ map = "null"
  /\ draggable = TRUE
  /\ pending = FALSE
  /\ now = 0
  /\ runs = 0
  /\ called = FALSE
  /\ edits = 0

\* The component as the recognizer and resize specifications leave it.
IdleMap ==
  /\ InitialMap
  /\ onShapesChange = TRUE
  /\ view = Snapshot

-----------------------------------------------------------------------------
(***************************************************************************)
(* recognizeShape applied to an input path, as handleMapMouseUp applies it *)
(* to the path of a finished drag.                                         *)
(***************************************************************************)
NoResult == [type |-> "none", path |-> <<>>]

InitRecognize ==
  /\ pc = "start"
  /\ path \in RecognizerInputs
  /\ perm = <<>>
  /\ result = NoResult
  /\ resultPerm = NoResult
  /\ shapes = <<>>
  /\ selectedShape = -1
  /\ orig = <<>>
  /\ factor = Zero
  /\ IdleMap

Recognize ==
  /\ pc = "start"
  /\ result' = recognizeShape(path)
  /\ pc' = "done"
  /\ UNCHANGED <<path, perm, resultPerm, shapes, selectedShape, orig, factor, mapVars>>

NextRecognize == Recognize

SpecRecognize == InitRecognize /\ [][NextRecognize]_vars

Types == {"circle", "rectangle", "triangle", "freehand"}

-----------------------------------------------------------------------------
(***************************************************************************)
(* recognizeShape applied to a path and to a permutation of it.  perm is   *)
(* the permutation as a sequence of indices: the permuted path has the     *)
(* point path[perm[i]] at position i.                                      *)
(***************************************************************************)
MaxRotate == 3
MaxSwap == 3

Rotation(n, r) == [i \in 1..n |-> ((i + r - 1) % n) + 1]

Reversal(n) == [i \in 1..n |-> n + 1 - i]

Swap(n, j, k) == [i \in 1..n |-> IF i = j THEN k ELSE IF i = k THEN j ELSE i]

PermutationsOf(n) ==
  {Rotation(n, r) : r \in 1..Min(MaxRotate, n - 1)}
    \cup {Reversal(n)}
    \cup {Swap(n, 1, k + 1) : k \in 1..Min(MaxSwap, n - 1)}

Permuted(p, q) == [i \in 1..Len(p) |-> p[q[i]]]

\* Paths long enough for the circle test.
\* Triangles whose coefficient of variation falls next to the 0.25 of the
\* circle test.
NearCircleDims == {<<10, 21>>, <<9, 14>>, <<12, 23>>}

NearCircleInputs ==
  {TrianglePerimeter(d[1], d[2], k) :
     d \in NearCircleDims, k \in MaxPerEdge..(MaxPerEdge + 1)}

PermuteInputs ==
  {p \in RecognizerInputs : Len(p) >= MinCirclePoints} \cup NearCircleInputs

InitPermute ==
  /\ pc = "start"
  /\ path \in PermuteInputs
  /\ perm \in PermutationsOf(Len(path))
  /\ result = NoResult
  /\ resultPerm = NoResult
  /\ shapes = <<>>
  /\ selectedShape = -1
  /\ orig = <<>>
  /\ factor = Zero
  /\ IdleMap

RecognizePermuted ==
  /\ pc = "done"
  /\ resultPerm' = recognizeShape(Permuted(path, perm))
  /\ pc' = "both"
  /\ UNCHANGED <<path, perm, result, shapes, selectedShape, orig, factor, mapVars>>

NextPermute == Recognize \/ RecognizePermuted

SpecPermute == InitPermute /\ [][NextPermute]_vars

-----------------------------------------------------------------------------
(***************************************************************************)
(* resizeShape applied to the selected shape with a factor and then with   *)
(* the factor's reciprocal.  shapes is the parent's list, which every      *)
(* onShapesChange call replaces; selectedShape is the index of the         *)
(* selected shape counted from 0 as in the source, or -1 for null (shape i *)
(* of the source is shapes[i + 1]).  A stored shape is what a finished     *)
(* drag of more than two points appended: the recognizer's type and path.  *)
(***************************************************************************)
ScaleFactors == {Lit(9, 10), Lit(11, 10), Lit(1, 2), FromInt(2)}

\* The drawn paths behind the stored shapes: more than two points.
ResizeSources ==
  {p \in ShortPaths : Len(p) = 3 /\ p[1] = Pt(Zero, Zero)}
    \cup RectangleInputs \cup TriangleInputs \cup CircleInputs
    \cup {p \in CoincidentInputs : Len(p) > 2}

\* shapeOf with the initial color in place of the selected one.
shapeOfInitialColor(recognized, color, time) ==
  [id |-> ToString(time), type |-> "polygon", shapeType |-> recognized.type,
   path |-> recognized.path, color |-> "red", createdAt |-> time]

\* The shape a finished drag stores when the selected color is color and
\* Date.now() reads time.
shapeOf(recognized, color, time) ==
  [id |-> ToString(time), type |-> "polygon", shapeType |-> recognized.type,
   path |-> recognized.path, color |-> color, createdAt |-> time]

\* The same with the initial color, the clock reading 0.
newShape(recognized) == shapeOf(recognized, "red", 0)

\* resizeShape's newPath without the center added back: (p - center) * s.
newPathNoOffset(p, scaleFactor) ==
  Only({[i \in 1..Len(p) |->
           Pt(FMul(FSub(p[i].lat, center.lat), scaleFactor),
              FMul(FSub(p[i].lng, center.lng), scaleFactor))] :
          center \in {getCenter(p)}})

\* newPath of resizeShape: every point scaled from the center of the path.
newPath(p, scaleFactor) ==
  Only({[i \in 1..Len(p) |->
           Pt(FAdd(center.lat, FMul(FSub(p[i].lat, center.lat), scaleFactor)),
              FAdd(center.lng, FMul(FSub(p[i].lng, center.lng), scaleFactor)))] :
          center \in {getCenter(p)}})

\* The list resizeShape hands to onShapesChange, or the list as it is when
\* resizeShape returns early.
resizeShape(scaleFactor) ==
  IF selectedShape = -1 \/ ~onShapesChange \/ selectedShape + 1 > Len(shapes) THEN shapes
  ELSE [shapes EXCEPT ![selectedShape + 1].path = newPath(@, scaleFactor)]

InitResize ==
  /\ pc = "start"
  /\ path \in ResizeSources
  /\ perm = <<>>
  /\ result = recognizeShape(path)
  /\ resultPerm = NoResult
  /\ shapes = <<newShape(result)>>
  /\ selectedShape \in {-1, 0}
  /\ orig = result.path
  /\ factor \in ScaleFactors
  /\ IdleMap

Resize ==
  /\ pc = "start"
  /\ shapes' = resizeShape(factor)
  /\ pc' = "resized"
  /\ UNCHANGED <<path, perm, result, resultPerm, selectedShape, orig, factor, mapVars>>

ResizeBack ==
  /\ pc = "resized"
  /\ shapes' = resizeShape(FDiv(One, factor))
  /\ pc' = "back"
  /\ UNCHANGED <<path, perm, result, resultPerm, selectedShape, orig, factor, mapVars>>

NextResize == Resize \/ ResizeBack

SpecResize == InitResize /\ [][NextResize]_vars

-----------------------------------------------------------------------------
(***************************************************************************)
(* The MapComponent: pencil mode, the drag that collects currentPath, the  *)
(* shape store and the selection.                                          *)
(*                                                                         *)
(* React state is isPencilMode, isDrawing, currentPath, selectedShape and  *)
(* selectedColor; map is "null" until onLoad, then "loaded", and           *)
(* "unmounted" after onUnmount; draggable is the option of the map object. *)
(* shapes is the store of the parent, onShapesChange whether the parent    *)
(* passed a callback.  A handler reads the values of the last render       *)
(* (view) and its updates become visible to handlers at the next Render.   *)
(* React renders between two input events, so a handler runs on a rendered *)
(* component (Ready); the one exception is a pointer-up over the map,      *)
(* which the map's onMouseUp and then the window's mouseup listener handle *)
(* in one dispatch: pending says that the window listener is still to run. *)
(*                                                                         *)
(* now is Date.now().  runs counts the calls of recognizeShape and called  *)
(* says whether onShapesChange has been called since the last render;      *)
(* edits counts moves and resizes.                                         *)
(***************************************************************************)
MaxShapes == 2
MaxEdits == 1
MaxClock == 1

\* Two of the eight keys of SHAPE_COLORS.
Colors == {"red", "blue"}

Ready == view = Snapshot /\ ~pending /\ ~called /\ runs = 0

\* The drags: the pointer follows one of these strokes, point by point, and
\* may be released after any number of points.
TriangleStroke ==
  <<Pt(FromInt(4), FromInt(2)), Pt(Zero, Zero), Pt(Zero, FromInt(4))>>

RectangleStroke ==
  <<Pt(One, Zero), Pt(One, FromInt(3)), Pt(FromInt(3), FromInt(3)),
    Pt(FromInt(3), Zero)>>

ScribbleStroke ==
  <<Pt(FromInt(2), FromInt(2)), Pt(FromInt(2), FromInt(2)),
    Pt(FromInt(2), FromInt(2))>>

Strokes == {TriangleStroke, RectangleStroke, ScribbleStroke}

\* The points the pointer can be at next.
NextPoints(p) ==
  {s[Len(p) + 1] : s \in {t \in Strokes : Len(p) < Len(t) /\ SubSeq(t, 1, Len(p)) = p}}

\* The store after the parent has applied onShapesChange(newShapes).
applied(newShapes) == newShapes

InitMap ==
  /\ pc = "map"
  /\ path = <<>>
  /\ perm = <<>>
  /\ result = NoResult
  /\ resultPerm = NoResult
  /\ orig = <<>>
  /\ factor = Zero
  /\ shapes = <<>>
  /\ selectedShape = -1
  /\ InitialMap
  /\ onShapesChange \in BOOLEAN
  /\ view = Snapshot

\* A render: the handlers become closures over the current values.
Render ==
  /\ view # Snapshot \/ pending \/ called \/ runs # 0
  /\ view' = Snapshot
  /\ pending' = FALSE
  /\ runs' = 0
  /\ called' = FALSE
  /\ UNCHANGED <<recVars, shapes, selectedShape, isPencilMode, isDrawing,
                 currentPath, selectedColor, map, draggable, onShapesChange,
                 now, edits>>

\* The millisecond clock advances.
Tick ==
  /\ now < MaxClock
  /\ now' = now + 1
  /\ UNCHANGED <<recVars, shapes, selectedShape, isPencilMode, isDrawing,
                 currentPath, selectedColor, map, draggable, onShapesChange,
                 view, pending, runs, called, edits>>

onLoad ==
  /\ Ready
  /\ map = "null"
  /\ map' = "loaded"
  /\ called' = FALSE
  /\ UNCHANGED <<recVars, shapes, selectedShape, isPencilMode, isDrawing,
                 currentPath, selectedColor, draggable, onShapesChange, view,
                 pending, now, runs, edits>>

onUnmount ==
  /\ Ready
  /\ map = "loaded"
  /\ map' = "unmounted"
  /\ called' = FALSE
  /\ UNCHANGED <<recVars, shapes, selectedShape, isPencilMode, isDrawing,
                 currentPath, selectedColor, draggable, onShapesChange, view,
                 pending, now, runs, edits>>

\* startedPath keeping the points of the drag in progress.
startedPathKeeping(prev, p) == Append(prev, p)

\* setCurrentPath([{ lat, lng }]) of handleMapMouseDown: prev is dropped.
startedPath(prev, p) == <<p>>

\* A pointer-down over the map at the first point of a stroke.
handleMapMouseDown ==
  /\ Ready
  /\ map = "loaded"
  /\ Len(shapes) < MaxShapes
  /\ \E p \in NextPoints(<<>>) :
       IF ~view.isPencilMode \/ view.map # "loaded"
       THEN UNCHANGED <<isDrawing, selectedShape, currentPath, draggable>>
       ELSE /\ isDrawing' = TRUE
            /\ selectedShape' = -1
            /\ currentPath' = startedPath(currentPath, p)
            /\ draggable' = FALSE
  /\ called' = FALSE
  /\ UNCHANGED <<recVars, shapes, isPencilMode, selectedColor, map,
                 onShapesChange, view, pending, now, runs, edits>>

\* handleMapMouseMove without its guard: every move adds a point.
handleMapMouseMoveUnguarded ==
  /\ Ready
  /\ map = "loaded"
  /\ \E p \in NextPoints(currentPath) : currentPath' = Append(currentPath, p)
  /\ called' = FALSE
  /\ UNCHANGED <<recVars, shapes, selectedShape, isPencilMode, isDrawing,
                 selectedColor, map, draggable, onShapesChange, view, pending,
                 now, runs, edits>>

\* The pointer moves over the map to the next point of the stroke.
handleMapMouseMove ==
  /\ Ready
  /\ map = "loaded"
  /\ \E p \in NextPoints(currentPath) :
       IF ~view.isDrawing \/ ~view.isPencilMode
       THEN UNCHANGED currentPath
       ELSE currentPath' = Append(currentPath, p)
  /\ called' = FALSE
  /\ UNCHANGED <<recVars, shapes, selectedShape, isPencilMode, isDrawing,
                 selectedColor, map, draggable, onShapesChange, view, pending,
                 now, runs, edits>>

\* enoughPoints with the bound one lower: a drag of two points is saved.
enoughPointsFromTwo(p) == Len(p) > 1

\* "Only save if we have enough points".
enoughPoints(p) == Len(p) > 2

\* handleMapMouseUp staying in pencil mode after the drag.
handleMapMouseUpKeepingPencil(v) ==
  IF ~v.isDrawing \/ v.map # "loaded"
  THEN /\ called' = called
       /\ UNCHANGED <<shapes, selectedShape, isPencilMode, isDrawing,
                      currentPath, draggable, runs>>
  ELSE /\ draggable' = TRUE
       /\ IF enoughPoints(v.currentPath)
          THEN /\ runs' = runs + 1
               /\ IF onShapesChange
                  THEN /\ shapes' =
                            applied(Append(v.shapes,
                                           shapeOf(recognizeShape(v.currentPath),
                                                   v.selectedColor, now)))
                       /\ selectedShape' = Len(v.shapes)
                       /\ called' = TRUE
                  ELSE /\ called' = called
                       /\ UNCHANGED <<shapes, selectedShape>>
          ELSE /\ called' = called
               /\ UNCHANGED <<shapes, selectedShape, runs>>
       /\ isDrawing' = FALSE
       /\ currentPath' = <<>>
       /\ isPencilMode' = isPencilMode

\* handleMapMouseUp as the closure over the values v of a render.
handleMapMouseUp(v) ==
  IF ~v.isDrawing \/ v.map # "loaded"
  THEN /\ called' = called
       /\ UNCHANGED <<shapes, selectedShape, isPencilMode, isDrawing,
                      currentPath, draggable, runs>>
  ELSE /\ draggable' = TRUE
       /\ IF enoughPoints(v.currentPath)
          THEN /\ runs' = runs + 1
               /\ IF onShapesChange
                  THEN /\ shapes' =
                            applied(Append(v.shapes,
                                           shapeOf(recognizeShape(v.currentPath),
                                                   v.selectedColor, now)))
                       /\ selectedShape' = Len(v.shapes)
                       /\ called' = TRUE
                  ELSE /\ called' = called
                       /\ UNCHANGED <<shapes, selectedShape>>
          ELSE /\ called' = called
               /\ UNCHANGED <<shapes, selectedShape, runs>>
       /\ isDrawing' = FALSE
       /\ currentPath' = <<>>
       /\ isPencilMode' = FALSE

\* The pointer is released over the map: the map's onMouseUp.
MapMouseUp ==
  /\ Ready
  /\ map = "loaded"
  /\ handleMapMouseUp(view)
  /\ pending' = TRUE
  /\ UNCHANGED <<recVars, selectedColor, map, onShapesChange, view, now, edits>>

\* The window's mouseup listener: for the pointer-up the map has just
\* handled, or for a pointer released outside the map.
handleGlobalMouseUp ==
  /\ pending \/ Ready
  /\ map # "unmounted"
  /\ IF view.isDrawing THEN handleMapMouseUp(view)
     ELSE /\ called' = called
          /\ UNCHANGED <<shapes, selectedShape, isPencilMode, isDrawing,
                         currentPath, draggable, runs>>
  /\ pending' = FALSE
  /\ UNCHANGED <<recVars, selectedColor, map, onShapesChange, view, now, edits>>

\* togglePencilMode leaving the drag as it is when the tool is switched off.
togglePencilModeKeepingDrag ==
  /\ Ready
  /\ map # "unmounted"
  /\ IF view.isPencilMode
     THEN /\ isPencilMode' = FALSE
          /\ UNCHANGED <<isDrawing, currentPath, draggable, selectedShape>>
     ELSE /\ isPencilMode' = TRUE
          /\ selectedShape' = -1
          /\ UNCHANGED <<isDrawing, currentPath, draggable>>
  /\ called' = FALSE
  /\ UNCHANGED <<recVars, shapes, selectedColor, map, onShapesChange, view,
                 pending, now, runs, edits>>

\* The pencil button.
togglePencilMode ==
  /\ Ready
  /\ map # "unmounted"
  /\ IF view.isPencilMode
     THEN /\ isPencilMode' = FALSE
          /\ isDrawing' = FALSE
          /\ currentPath' = <<>>
          /\ draggable' = IF view.map = "loaded" THEN TRUE ELSE draggable
          /\ UNCHANGED selectedShape
     ELSE /\ isPencilMode' = TRUE
          /\ selectedShape' = -1
          /\ UNCHANGED <<isDrawing, currentPath, draggable>>
  /\ called' = FALSE
  /\ UNCHANGED <<recVars, shapes, selectedColor, map, onShapesChange, view,
                 pending, now, runs, edits>>

\* A color button of the toolbar, shown in pencil mode.
setSelectedColor ==
  /\ Ready
  /\ map # "unmounted"
  /\ view.isPencilMode
  /\ selectedColor' \in Colors
  /\ called' = FALSE
  /\ UNCHANGED <<recVars, shapes, selectedShape, isPencilMode, isDrawing,
                 currentPath, map, draggable, onShapesChange, view, pending,
                 now, runs, edits>>

\* handleShapeClick without its pencil-mode guard.
handleShapeClickInPencilMode ==
  /\ Ready
  /\ map = "loaded"
  /\ \E index \in 0..(Len(view.shapes) - 1) :
       selectedShape' = IF view.selectedShape = index THEN -1 ELSE index
  /\ called' = FALSE
  /\ UNCHANGED <<recVars, shapes, isPencilMode, isDrawing, currentPath,
                 selectedColor, map, draggable, onShapesChange, view, pending,
                 now, runs, edits>>

\* A click on the polygon of the shape at index.
handleShapeClick ==
  /\ Ready
  /\ map = "loaded"
  /\ \E index \in 0..(Len(view.shapes) - 1) :
       selectedShape' =
         IF view.isPencilMode THEN selectedShape
         ELSE IF view.selectedShape = index THEN -1 ELSE index
  /\ called' = FALSE
  /\ UNCHANGED <<recVars, shapes, isPencilMode, isDrawing, currentPath,
                 selectedColor, map, draggable, onShapesChange, view, pending,
                 now, runs, edits>>

\* A click on the map: GoogleMap's onClick.
handleMapClick ==
  /\ Ready
  /\ map = "loaded"
  /\ selectedShape' =
       IF ~view.isPencilMode /\ ~view.isDrawing THEN -1 ELSE selectedShape
  /\ called' = FALSE
  /\ UNCHANGED <<recVars, shapes, isPencilMode, isDrawing, currentPath,
                 selectedColor, map, draggable, onShapesChange, view, pending,
                 now, runs, edits>>

\* The Done button, shown when a shape is selected outside pencil mode.
doneSelection ==
  /\ Ready
  /\ map # "unmounted"
  /\ view.selectedShape # -1 /\ ~view.isPencilMode
  /\ selectedShape' = -1
  /\ called' = FALSE
  /\ UNCHANGED <<recVars, shapes, isPencilMode, isDrawing, currentPath,
                 selectedColor, map, draggable, onShapesChange, view, pending,
                 now, runs, edits>>

\* without removing every shape that has the id of the shape at index.
withoutSameId(list, index) ==
  SelectSeq(list, LAMBDA s : s.id # list[index + 1].id)

\* shapes.filter((_, i) => i !== index), index counted from 0.
without(list, index) ==
  [i \in 1..(Len(list) - 1) |-> IF i <= index THEN list[i] ELSE list[i + 1]]

\* The Delete button, shown when a shape is selected outside pencil mode.
deleteSelectedShape ==
  /\ Ready
  /\ map # "unmounted"
  /\ view.selectedShape # -1 /\ ~view.isPencilMode
  /\ IF view.selectedShape # -1 /\ onShapesChange
     THEN /\ shapes' =
               applied(IF view.selectedShape < Len(view.shapes)
                       THEN without(view.shapes, view.selectedShape)
                       ELSE view.shapes)
          /\ selectedShape' = -1
          /\ called' = TRUE
     ELSE /\ called' = FALSE
          /\ UNCHANGED <<shapes, selectedShape>>
  /\ UNCHANGED <<recVars, isPencilMode, isDrawing, currentPath, selectedColor,
                 map, draggable, onShapesChange, view, pending, now, runs, edits>>

\* The Delete All button, shown outside pencil mode when there are shapes.
deleteAllShapes ==
  /\ Ready
  /\ map # "unmounted"
  /\ Len(view.shapes) > 0 /\ ~view.isPencilMode
  /\ IF onShapesChange
     THEN /\ shapes' = applied(<<>>)
          /\ selectedShape' = -1
          /\ called' = TRUE
     ELSE /\ called' = FALSE
          /\ UNCHANGED <<shapes, selectedShape>>
  /\ UNCHANGED <<recVars, isPencilMode, isDrawing, currentPath, selectedColor,
                 map, draggable, onShapesChange, view, pending, now, runs, edits>>

\* handleKeyDown leaving the map's draggable option as it is.
handleKeyDownKeepingLock ==
  /\ Ready
  /\ map # "unmounted"
  /\ IF view.isPencilMode
     THEN /\ isPencilMode' = FALSE
          /\ isDrawing' = FALSE
          /\ currentPath' = <<>>
          /\ UNCHANGED draggable
     ELSE UNCHANGED <<isPencilMode, isDrawing, currentPath, draggable>>
  /\ selectedShape' = IF view.selectedShape # -1 THEN -1 ELSE selectedShape
  /\ called' = FALSE
  /\ UNCHANGED <<recVars, shapes, selectedColor, map, onShapesChange, view,
                 pending, now, runs, edits>>

\* The keydown listener of the window, for the Escape key.
handleKeyDown ==
  /\ Ready
  /\ map # "unmounted"
  /\ IF view.isPencilMode
     THEN /\ isPencilMode' = FALSE
          /\ isDrawing' = FALSE
          /\ currentPath' = <<>>
          /\ draggable' = IF view.map = "loaded" THEN TRUE ELSE draggable
     ELSE UNCHANGED <<isPencilMode, isDrawing, currentPath, draggable>>
  /\ selectedShape' = IF view.selectedShape # -1 THEN -1 ELSE selectedShape
  /\ called' = FALSE
  /\ UNCHANGED <<recVars, shapes, selectedColor, map, onShapesChange, view,
                 pending, now, runs, edits>>

\* The factors of the - and + buttons.
ButtonFactors == {Lit(9, 10), Lit(11, 10)}

\* A size button, shown when a shape is selected outside pencil mode.
resizeClick ==
  /\ Ready
  /\ map # "unmounted"
  /\ view.selectedShape # -1 /\ ~view.isPencilMode
  /\ edits < MaxEdits
  /\ \E scaleFactor \in ButtonFactors : shapes' = applied(resizeShape(scaleFactor))
  /\ called' = (onShapesChange /\ selectedShape + 1 <= Len(shapes))
  /\ edits' = edits + 1
  /\ UNCHANGED <<recVars, selectedShape, isPencilMode, isDrawing, currentPath,
                 selectedColor, map, draggable, onShapesChange, view, pending,
                 now, runs>>

\* The offsets by which a polygon is dragged.
Offsets == {Pt(Lit(-1, 2), FromInt(2))}

Translated(p, d) ==
  [i \in 1..Len(p) |-> Pt(FAdd(p[i].lat, d.lat), FAdd(p[i].lng, d.lng))]

\* updatedShapes of handleShapeDragEnd: the shapes of this id take the path
\* of the polygon.
handleShapeDragEnd(shapeId, polygonPath) ==
  [i \in 1..Len(shapes) |->
     IF shapes[i].id = shapeId THEN [shapes[i] EXCEPT !.path = polygonPath]
     ELSE shapes[i]]

\* The selected polygon (the only draggable one) has been dragged by d.  The
\* polygon registered under the id of its shape is the polygon of a shape of
\* that id: the dragged one, or that of another shape of the same id, which
\* still has the path it was rendered with.
shapeDragEnd ==
  /\ Ready
  /\ map = "loaded"
  /\ view.selectedShape # -1 /\ view.selectedShape < Len(view.shapes)
  /\ edits < MaxEdits
  /\ \E d \in Offsets, k \in 1..Len(shapes) :
       /\ shapes[k].id = shapes[selectedShape + 1].id
       /\ IF onShapesChange
          THEN shapes' =
                 applied(handleShapeDragEnd(
                           shapes[k].id,
                           IF k = selectedShape + 1 THEN Translated(shapes[k].path, d)
                           ELSE shapes[k].path))
          ELSE UNCHANGED shapes
  /\ called' = onShapesChange
  /\ edits' = edits + 1
  /\ UNCHANGED <<recVars, selectedShape, isPencilMode, isDrawing, currentPath,
                 selectedColor, map, draggable, onShapesChange, view, pending,
                 now, runs>>

NextMap ==
  \/ Render
  \/ Tick
  \/ onLoad
  \/ onUnmount
  \/ handleMapMouseDown
  \/ handleMapMouseMove
  \/ MapMouseUp
  \/ handleGlobalMouseUp
  \/ togglePencilMode
  \/ setSelectedColor
  \/ handleShapeClick
  \/ handleMapClick
  \/ doneSelection
  \/ deleteSelectedShape
  \/ deleteAllShapes
  \/ handleKeyDown
  \/ resizeClick
  \/ shapeDragEnd

SpecMap == InitMap /\ [][NextMap]_vars

-----------------------------------------------------------------------------
(***************************************************************************)
(* Properties of recognizeShape, checked under SpecRecognize.              *)
(***************************************************************************)
Freehand(p) == [type |-> "freehand", path |-> p]

FinitePath(p) == \A i \in 1..Len(p) : IsFinite(p[i].lat) /\ IsFinite(p[i].lng)

circlePasses(p) == isCircleLike(p).ok

rectanglePasses(p) == isRectangleLike(p) # <<>>

trianglePasses(p) == isTriangleLike(p) # <<>>

\* C1: recognizeShape is total.  For every path of at least one point the
\* result is one of circle, rectangle, triangle, freehand; every coordinate
\* of the returned path is a finite number (no NaN or infinity of the tests
\* reaches the output); and when the circle, rectangle and triangle tests all
\* fail the result is freehand with the input path itself.
RecognizeTotal ==
  pc = "done" /\ Len(path) >= 1 =>
    /\ result.type \in Types
    /\ FinitePath(result.path)
    /\ (~circlePasses(path) /\ ~rectanglePasses(path) /\ ~trianglePasses(path)
          => result = Freehand(path))

\* C1 witness: a path long enough for the circle test whose coefficient of
\* variation is 0 / 0 = NaN, on which all three tests fail, came back freehand.
RecognizeTotalWitness ==
  /\ pc = "done"
  /\ Len(path) >= MinCirclePoints
  /\ circleStats(path).coefficient = NaN
  /\ ~circlePasses(path) /\ ~rectanglePasses(path) /\ ~trianglePasses(path)
  /\ result = Freehand(path)

\* C2: dispatch is first match wins in the order circle, rectangle, triangle,
\* freehand.  If the circle test passes the result is circle whatever the
\* other tests say; if it fails and the rectangle test passes the result is
\* rectangle whatever the triangle test says; the result is triangle only when
\* the circle and rectangle tests both fail and the triangle test passes.
DispatchOrder ==
  pc = "done" =>
    /\ (circlePasses(path) => result.type = "circle")
    /\ (~circlePasses(path) /\ rectanglePasses(path) => result.type = "rectangle")
    /\ (result.type = "triangle" <=>
          ~circlePasses(path) /\ ~rectanglePasses(path) /\ trianglePasses(path))

\* C2 witness: all three tests pass on the path and the result is circle.
DispatchOrderWitness ==
  /\ pc = "done"
  /\ circlePasses(path) /\ rectanglePasses(path) /\ trianglePasses(path)
  /\ result.type = "circle"

\* C3: the returned path has exactly 32 points for a circle, 4 for a
\* rectangle, 3 for a triangle and as many as the input for freehand.
OutputLength ==
  pc = "done" =>
    Len(result.path) = CASE result.type = "circle" -> 32
                         [] result.type = "rectangle" -> 4
                         [] result.type = "triangle" -> 3
                         [] OTHER -> Len(path)

\* C3 witness: a path of another length than 32 was classified circle and
\* 32 points came back.
OutputLengthWitness ==
  /\ pc = "done"
  /\ result.type = "circle"
  /\ Len(path) # 32
  /\ Len(result.path) = 32

\* C4: a path of one or two points is returned as freehand, unchanged.
ShortPathFreehand ==
  pc = "done" /\ Len(path) < 3 => result = Freehand(path)

\* C4 witness: two distinct points (a non-degenerate bounding box) came back
\* freehand.
ShortPathFreehandWitness ==
  /\ pc = "done"
  /\ Len(path) = 2
  /\ path[1].lat # path[2].lat /\ path[1].lng # path[2].lng
  /\ result = Freehand(path)

\* C5: every path of the points along the four edges of an axis-aligned
\* rectangle, of any number of points >= 4, is classified rectangle, and the
\* bounding box of the returned path is the bounding box of the input.
RectanglePerimeterIsRectangle ==
  pc = "done" /\ path \in RectangleInputs /\ Len(path) >= 4 =>
    /\ result.type = "rectangle"
    /\ getBoundingBox(result.path) = getBoundingBox(path)

\* C6: every path of the points along the three edges of a near-equilateral
\* triangle, of any number of points >= 3, is classified triangle.
TrianglePerimeterIsTriangle ==
  pc = "done" /\ path \in TriangleInputs /\ Len(path) >= 3 =>
    result.type = "triangle"

\* The exact value of a grid coordinate, an integer.
IntOf(x) == x.m * 2^x.e

\* Three grid points on one line: the cross product of p2 - p1 and p3 - p1 is 0.
Collinear(p) ==
  (IntOf(p[2].lat) - IntOf(p[1].lat)) * (IntOf(p[3].lng) - IntOf(p[1].lng))
    = (IntOf(p[3].lat) - IntOf(p[1].lat)) * (IntOf(p[2].lng) - IntOf(p[1].lng))

\* C7: for a path of exactly three collinear points, in any order and on any
\* line, the triangle test fails its minDist / maxDist > 0.2 check and the
\* result is freehand.
CollinearIsFreehand ==
  pc = "done" /\ path \in ShortPaths /\ Len(path) = 3 /\ Collinear(path) =>
    /\ ~FGreater(flatness(path), TriangleFlatness)
    /\ result = Freehand(path)

AllCoincide(p) == \A i \in 1..Len(p) : p[i] = p[1]

\* C8: when all points of the path coincide, whatever its length, the circle
\* test and the triangle test both fail and the result is freehand with the
\* path unchanged: no zero-radius circle.
CoincidentIsFreehand ==
  pc = "done" /\ AllCoincide(path) =>
    /\ ~circlePasses(path)
    /\ ~trianglePasses(path)
    /\ result = Freehand(path)

-----------------------------------------------------------------------------
(***************************************************************************)
(* Rounding distances.  Two numbers are compared in units of 2^q: Fix(x,q) *)
(* is the exact floor(x / 2^q).  For a path the unit is the last place of  *)
(* its largest coordinate: q = PathScale(p) - Precision.                   *)
(***************************************************************************)
Fix(x, q) ==
  IF x.e >= q THEN x.m * 2^(x.e - q)
  ELSE IF q - x.e > 30 THEN (IF x.m < 0 THEN -1 ELSE 0)
  ELSE x.m \div 2^(q - x.e)

Within(a, b, k, q) ==
  \/ a = b
  \/ IsFinite(a) /\ IsFinite(b) /\ Abs(Fix(a, q) - Fix(b, q)) <= k

PointsWithin(a, b, k, q) ==
  /\ Len(a) = Len(b)
  /\ \A i \in 1..Len(a) :
       Within(a[i].lat, b[i].lat, k, q) /\ Within(a[i].lng, b[i].lng, k, q)

PathScale(p) ==
  LET nonzero == {x \in {p[i].lat : i \in 1..Len(p)} \cup {p[i].lng : i \in 1..Len(p)} :
                    IsFinite(x) /\ x # Zero}
  IN IF nonzero = {} THEN 0
     ELSE CHOOSE s \in {Msb(x) : x \in nonzero} : \A x \in nonzero : Msb(x) <= s

PathUnit(p) == PathScale(p) - Precision

-----------------------------------------------------------------------------
(***************************************************************************)
(* Properties of the circle test under permutation, checked under          *)
(* SpecPermute.  The slacks bound the rounding error that n additions and  *)
(* the operations after them accumulate, in units of the last place of the *)
(* largest coordinate.                                                     *)
(***************************************************************************)
CentroidSlack(n) == 2 * n

OutputSlack(n) == 11 * n + 40

ThresholdSlack(n) == 17 * n + 62

\* stdDev of the circle test is within k units of 0.25 * avgRadius.
AtThreshold(st, k, q) ==
  Within(FMul(st.coefficient, st.radius), FMul(CircleCoefficient, st.radius), k, q)

\* C9 as stated: for every path and every permutation of its points the
\* circle test returns the same verdict and, when the verdict is circle, the
\* 32 synthesized points are identical.
CircleOrderIndependent ==
  pc = "both" =>
    /\ (result.type = "circle") = (resultPerm.type = "circle")
    /\ result.type = "circle" => resultPerm.path = result.path

\* C9, within rounding: for every path of finite coordinates and every
\* permutation of its points the centroid, the average radius and, when both
\* verdicts are circle, each of the 32 synthesized points agree within the
\* accumulated rounding error; the verdicts differ only when stdDev is
\* within rounding error of 0.25 * avgRadius in both orders.
CircleOrderWithinRounding ==
  pc = "both" /\ FinitePath(path) =>
    LET n == Len(path)
        q == PathUnit(path)
        a == circleStats(path)
        b == circleStats(Permuted(path, perm))
    IN /\ Within(a.center.lat, b.center.lat, CentroidSlack(n), q)
       /\ Within(a.center.lng, b.center.lng, CentroidSlack(n), q)
       /\ Within(a.radius, b.radius, OutputSlack(n), q)
       /\ result.type = "circle" /\ resultPerm.type = "circle" =>
            PointsWithin(result.path, resultPerm.path, OutputSlack(n), q)
       /\ (result.type = "circle") # (resultPerm.type = "circle") =>
            AtThreshold(a, ThresholdSlack(n), q) /\ AtThreshold(b, ThresholdSlack(n), q)

\* Both orders are circles and the synthesized points differ.
CircleOrderWitness ==
  /\ pc = "both"
  /\ result.type = "circle"
  /\ resultPerm.type = "circle"
  /\ resultPerm.path # result.path

-----------------------------------------------------------------------------
(***************************************************************************)
(* Properties of resizeShape, checked under SpecResize.                    *)
(***************************************************************************)
ResizeSlack(n) == 4 * n + 90

\* C10 as stated: resizing by s and then by 1 / s reproduces the original
\* path, every point, in order.
ResizeSelfInverse ==
  pc = "back" => shapes[1].path = orig

\* C10, within rounding: for a factor s between 1/2 and 2, resizing the
\* selected shape by s and then by 1 / s leaves a path of the same length
\* whose points are, in order, within the accumulated rounding error of the
\* original ones, and leaves the other fields of the shape as they were;
\* with no shape selected the list does not change.
ResizeRoundTripWithinRounding ==
  pc = "back" =>
    /\ PointsWithin(shapes[1].path, orig, ResizeSlack(Len(orig)), PathUnit(orig))
    /\ shapes = <<[newShape(result) EXCEPT !.path = shapes[1].path]>>
    /\ selectedShape = -1 => shapes[1].path = orig

\* A shape is selected and the round trip has moved one of its points.
ResizeRoundTripWitness ==
  /\ pc = "back"
  /\ selectedShape = 0
  /\ shapes[1].path # orig

-----------------------------------------------------------------------------
(***************************************************************************)
(* Properties of the MapComponent, checked under SpecMap.                  *)
(***************************************************************************)
\* C11: in every reachable state of the store, after any sequence of draws,
\* moves, resizes and deletions, every stored shape has a path of at least
\* 3 points.
StoredPathsHaveThreePoints ==
  \A i \in 1..Len(shapes) : Len(shapes[i].path) >= 3

\* Two shapes are stored, one of them moved or resized.
StoredPathsWitness ==
  /\ Len(shapes) = 2
  /\ edits > 0
  /\ \E i \in 1..2 : Len(shapes[i].path) = 3

\* A pointer-up handler runs while a drag of 1 or 2 points is active.
ShortDragEnds ==
  /\ MapMouseUp \/ handleGlobalMouseUp
  /\ isDrawing
  /\ Len(currentPath) \in {1, 2}

\* C12: a mouse-up ending a drag of 1 or 2 collected points appends nothing
\* to the store and does not call onShapesChange.
ShortDragSavesNothing ==
  [][ShortDragEnds => shapes' = shapes /\ called' = called]_vars

\* The map's onMouseUp has ended a drag of 1 or 2 points: the store is the
\* one it read and onShapesChange has not been called.
ShortDragWitness ==
  /\ pending
  /\ view.isDrawing /\ ~isDrawing
  /\ Len(view.currentPath) \in {1, 2}
  /\ shapes = view.shapes
  /\ ~called

\* C13: for each completed drag the recognizer is run exactly once and at
\* most one shape is appended to the store, also when the map's onMouseUp and
\* the window's mouseup listener both handle the pointer-up before the
\* component re-renders.
RecognizerRunsOncePerDrag ==
  /\ runs <= 1
  /\ pending /\ view.isDrawing /\ enoughPoints(view.currentPath) => runs = 1
  /\ Len(shapes) <= Len(view.shapes) + 1

\* A pointer-down over the map while a drag is active.
DragRestarts == handleMapMouseDown /\ isDrawing

\* The points the pointer-up being handled has collected.
collected == IF pending THEN view.currentPath ELSE currentPath

\* C14: there is one in-progress path; a mouse-down that arrives while a drag
\* is active is ignored or resets the path to the single new point, and a
\* mouse-up leaves at most one shape more than the store had, built from the
\* points collected since.
NoConcurrentDrags ==
  [][/\ DragRestarts =>
          \/ currentPath' = currentPath
          \/ isDrawing' /\ Len(currentPath') = 1 /\ currentPath'[1] \in NextPoints(<<>>)
     /\ (MapMouseUp \/ handleGlobalMouseUp) /\ shapes' # shapes =>
          /\ Len(shapes') = Len(view.shapes) + 1
          /\ SubSeq(shapes', 1, Len(view.shapes)) = view.shapes
          /\ shapes'[Len(shapes')].path = recognizeShape(collected).path]_vars

\* A mouse-down has reset a drag of several points to its single new point.
DragRestartWitness ==
  /\ view.isDrawing /\ isDrawing
  /\ Len(view.currentPath) >= 2
  /\ Len(currentPath) = 1

\* The shapes other than the one at index target are the same in both lists,
\* and that one differs in its path only.
OnlyPathChanged(before, after, target) ==
  /\ Len(after) = Len(before)
  /\ \A i \in 1..Len(before) :
       IF i = target THEN [after[i] EXCEPT !.path = before[i].path] = before[i]
       ELSE after[i] = before[i]

\* C15: no shape is re-classified after creation.  A move and a resize change
\* nothing but the path of the targeted (selected) shape: its id, shapeType,
\* color and createdAt, every other shape, the number of shapes and their
\* order are unchanged.
MoveAndResizeChangeOnePath ==
  [][shapeDragEnd \/ resizeClick =>
       OnlyPathChanged(shapes, shapes', selectedShape + 1)]_vars

\* C17: every created shape receives a fresh identifier.  In every reachable
\* state the ids of the stored shapes are pairwise distinct, so that a move
\* addressed by id updates exactly one shape.
IdsPairwiseDistinct ==
  \A i, j \in 1..Len(shapes) : shapes[i].id = shapes[j].id => i = j

\* A pointer-up handler ends an active drag of more than 2 points and the
\* parent has passed onShapesChange.
LongDragEnds ==
  /\ MapMouseUp \/ handleGlobalMouseUp
  /\ isDrawing
  /\ Len(currentPath) > 2
  /\ onShapesChange

\* C16: on a successful drag the new store is the previous list of shapes,
\* unchanged and in the same order, followed by exactly one new shape whose
\* shapeType and path are the recognizer's result and whose color is the
\* color selected at the moment of mouse-up.
SuccessfulDragAppendsOne ==
  [][LongDragEnds =>
       /\ Len(shapes') = Len(shapes) + 1
       /\ SubSeq(shapes', 1, Len(shapes)) = shapes
       /\ shapes'[Len(shapes')].shapeType = recognizeShape(currentPath).type
       /\ shapes'[Len(shapes')].path = recognizeShape(currentPath).path
       /\ shapes'[Len(shapes')].color = selectedColor]_vars

\* A second shape has been appended while the selected color was not the
\* initial one.
SuccessfulDragWitness ==
  /\ pending /\ called
  /\ view.isDrawing /\ Len(view.currentPath) > 2
  /\ view.selectedColor = "blue"
  /\ Len(view.shapes) = 1 /\ Len(shapes) = 2
  /\ shapes[2].color = "blue"
-----------------------------------------------------------------------------
(***************************************************************************)
(* Properties of the three shape tests, checked under SpecRecognize.       *)
(***************************************************************************)
\* The exact sums of the integer coordinates of p.
RECURSIVE IntSum(_, _)
IntSum(s, n) == IF n = 0 THEN 0 ELSE IntSum(s, n - 1) + s[n]

\* n * n * the exact squared distance of point i of p to the centroid of p,
\* for a path of integer coordinates.
ScaledSquare(p, i) ==
  LET n == Len(p)
      dx == n * IntOf(p[i].lat) - IntSum([j \in 1..n |-> IntOf(p[j].lat)], n)
      dy == n * IntOf(p[i].lng) - IntSum([j \in 1..n |-> IntOf(p[j].lng)], n)
  IN dx * dx + dy * dy

\* All points of p are at the same positive distance from their centroid,
\* in exact arithmetic.
SameDistance(p) ==
  /\ ScaledSquare(p, 1) > 0
  /\ \A i \in 1..Len(p) : ScaledSquare(p, i) = ScaledSquare(p, 1)

\* The common distance is at least 8 * n units in the last place of the
\* largest coordinate of p, n the number of points: the error that the n
\* additions of the centroid leave in the distances is small against it.
Resolved(p) ==
  LET nr == ISqrt(ScaledSquare(p, 1))
      q == PathUnit(p)
  IN IF q >= 0 THEN nr >= 8 * Len(p) * Len(p) * 2^q
     ELSE IF q < -12 THEN nr > 0
     ELSE nr * 2^(-q) >= 8 * Len(p) * Len(p)

CircleTestIsThreshold ==
  /\ circlePasses(path) <=>
       Len(path) >= MinCirclePoints
         /\ FLess(circleStats(path).coefficient, CircleCoefficient)
  /\ Len(path) < MinCirclePoints => result.type # "circle"

\* C18: the circle test matches exactly when the path has at least 10 points
\* and the coefficient of variation is strictly below 0.25; no path of fewer
\* than 10 points is classified circle; every path of 10 or more points all
\* at the same positive distance from their centroid is classified circle.
CircleTestExact ==
  pc = "done" =>
    /\ CircleTestIsThreshold
    /\ (path \in RingInputs /\ Len(path) >= MinCirclePoints /\ SameDistance(path)
          => result.type = "circle")

\* C18 as the code has it: the same, the equidistant paths being those whose
\* common distance is resolved by the arithmetic.
CircleTestWithinRounding ==
  pc = "done" =>
    /\ CircleTestIsThreshold
    /\ (path \in RingInputs /\ Len(path) >= MinCirclePoints /\ SameDistance(path)
           /\ Resolved(path)
          => result.type = "circle")

\* C18 witness: ten points at the same distance of a centroid that the
\* additions do not give exactly were classified circle.
CircleTestWitness ==
  /\ pc = "done"
  /\ path \in RingInputs /\ Len(path) = MinCirclePoints
  /\ SameDistance(path) /\ Resolved(path)
  /\ circleStats(path).center.lat
       # FromInt(IntSum([j \in 1..Len(path) |-> IntOf(path[j].lat)], Len(path))
                   \div Len(path))
  /\ result.type = "circle"

\* The number of points of p that the rectangle test counts as near an edge
\* of the bounding box.
EdgePoints(p) ==
  Only({Cardinality({i \in 1..Len(p) : nearBox(p[i], box, toleranceOf(box))}) :
          box \in {getBoundingBox(p)}})

\* The same count in exact arithmetic, for a path of integer coordinates: the
\* points strictly closer than 15/100 of the longer side to the line of an
\* edge.
ExactEdgePoints(p) ==
  LET lats == {IntOf(p[i].lat) : i \in 1..Len(p)}
      lngs == {IntOf(p[i].lng) : i \in 1..Len(p)}
      north == CHOOSE x \in lats : \A y \in lats : y <= x
      south == CHOOSE x \in lats : \A y \in lats : y >= x
      east == CHOOSE x \in lngs : \A y \in lngs : y <= x
      west == CHOOSE x \in lngs : \A y \in lngs : y >= x
      longer == Max(east - west, north - south)
      near(a, b) == 100 * Abs(a - b) < 15 * longer
  IN Cardinality({i \in 1..Len(p) :
                    \/ near(IntOf(p[i].lat), north) \/ near(IntOf(p[i].lat), south)
                    \/ near(IntOf(p[i].lng), west) \/ near(IntOf(p[i].lng), east)})

\* The greatest and the least of the numbers s[1..n].
Greatest(s) == CHOOSE x \in {s[i] : i \in 1..Len(s)} : \A i \in 1..Len(s) : ~FLess(x, s[i])

Least(s) == CHOOSE x \in {s[i] : i \in 1..Len(s)} : \A i \in 1..Len(s) : ~FLess(s[i], x)

\* (north, west), (north, east), (south, east), (south, west) of p.
CornersInOrder(p) ==
  <<Pt(Greatest(Lats(p)), Least(Lngs(p))), Pt(Greatest(Lats(p)), Greatest(Lngs(p))),
    Pt(Least(Lats(p)), Greatest(Lngs(p))), Pt(Least(Lats(p)), Least(Lngs(p)))>>

\* C19: the rectangle test matches exactly when the path has at least 4
\* points and strictly more than 70% of them are strictly within
\* 0.15 * max(east - west, north - south) of the line of a bounding-box edge,
\* an edge ratio of exactly 0.7 not matching; on a match the returned path is
\* (north, west), (north, east), (south, east), (south, west).
RectangleTestExact ==
  pc = "done" =>
    /\ rectanglePasses(path) <=>
         Len(path) >= MinRectanglePoints /\ 10 * EdgePoints(path) > 7 * Len(path)
    /\ path \in MixedInputs => EdgePoints(path) = ExactEdgePoints(path)
    /\ rectanglePasses(path) => isRectangleLike(path) = CornersInOrder(path)
    /\ result.type = "rectangle" => result.path = CornersInOrder(path)

\* C19 witness: ten points, exactly seven of them near an edge and one at
\* exactly the tolerance from an edge, were not classified rectangle.
RectangleTestWitness ==
  /\ pc = "done"
  /\ path \in MixedInputs
  /\ Len(path) = 10 /\ EdgePoints(path) = 7
  /\ \E i \in 1..Len(path) : 100 * IntOf(path[i].lat) = 15 * BoxSide
  /\ ~circlePasses(path)
  /\ result.type # "rectangle"

\* The earliest point of p whose score no point exceeds.
EarliestBest(p, score) ==
  p[CHOOSE k \in 1..Len(p) :
      /\ \A j \in 1..Len(p) : ~FGreater(score[j], score[k])
      /\ \A j \in 1..(k - 1) : FGreater(score[k], score[j])]

\* The same with the scores in exact arithmetic, for integer coordinates.
ExactBest(p, score) ==
  p[CHOOSE k \in 1..Len(p) :
      /\ \A j \in 1..Len(p) : score[j] <= score[k]
      /\ \A j \in 1..(k - 1) : score[j] < score[k]]

\* The number of points of p with dist(p, c1) + dist(p, c2) < 1.3 * dist(c1, c2)
\* for one of the three edges (c1, c2) of the triangle c.
TriangleEdgePoints(p, c) ==
  Cardinality({i \in 1..Len(p) :
    \E e \in 1..3 :
       FLess(FAdd(distance(p[i], c[e]), distance(p[i], c[(e % 3) + 1])),
             FMul(distance(c[e], c[(e % 3) + 1]), TriangleSlack))})

\* C20: whenever recognizeShape returns triangle, the returned path is the
\* input point of maximum latitude, the input point maximising -lat - lng and
\* the input point maximising -lat + lng, in this order, the earliest drawn
\* of the points of equal score; each vertex is a point of the input; and
\* strictly more than 60% of the input points are near one of the three edges.
TriangleResultOrder ==
  pc = "done" /\ result.type = "triangle" =>
    /\ Len(result.path) = 3
    /\ result.path[1] = EarliestBest(path, Lats(path))
    /\ result.path[2] =
         EarliestBest(path, [i \in 1..Len(path) |-> FSub(FNeg(path[i].lat), path[i].lng)])
    /\ result.path[3] =
         EarliestBest(path, [i \in 1..Len(path) |-> FAdd(FNeg(path[i].lat), path[i].lng)])
    /\ (path \in MixedInputs =>
          /\ result.path[1] = ExactBest(path, [i \in 1..Len(path) |-> IntOf(path[i].lat)])
          /\ result.path[2] =
               ExactBest(path, [i \in 1..Len(path) |->
                                  -IntOf(path[i].lat) - IntOf(path[i].lng)])
          /\ result.path[3] =
               ExactBest(path, [i \in 1..Len(path) |->
                                  -IntOf(path[i].lat) + IntOf(path[i].lng)]))
    /\ \A v \in 1..3 : \E i \in 1..Len(path) : result.path[v] = path[i]
    /\ 10 * TriangleEdgePoints(path, result.path) > 6 * Len(path)

\* C20 witness: a triangle came back from a path on which two points share
\* the maximum latitude, the one drawn first being the first vertex.
TriangleResultWitness ==
  /\ pc = "done"
  /\ result.type = "triangle"
  /\ \E i, j \in 1..Len(path) :
       /\ i < j
       /\ path[i] # path[j]
       /\ path[i].lat = path[j].lat
       /\ \A k \in 1..Len(path) : ~FGreater(path[k].lat, path[i].lat)
       /\ result.path[1] = path[i]

\* The exact squared distance of two points of integer coordinates.
IntSqDist(a, b) ==
  (IntOf(a.lat) - IntOf(b.lat)) * (IntOf(a.lat) - IntOf(b.lat))
    + (IntOf(a.lng) - IntOf(b.lng)) * (IntOf(a.lng) - IntOf(b.lng))

\* min / max of the three pairwise corner distances is above 0.2, in exact
\* arithmetic: 25 * min^2 > max^2 and max > 0.
ExactNotFlat(c) ==
  LET d == <<IntSqDist(c[1], c[2]), IntSqDist(c[2], c[3]), IntSqDist(c[3], c[1])>>
      least == Min(Min(d[1], d[2]), d[3])
      most == Max(Max(d[1], d[2]), d[3])
  IN most > 0 /\ 25 * least > most

IntegerInputs == ShortPaths \cup MixedInputs \cup RingInputs

\* C21: whenever min / max of the three pairwise corner distances is at most
\* 0.2, in particular whenever two corner candidates are the same point, the
\* triangle test does not match; every triangle that recognizeShape returns
\* has three pairwise distinct vertices.
FlatTriangleRejected ==
  pc = "done" /\ Len(path) >= MinTrianglePoints =>
    /\ ~FGreater(flatness(path), TriangleFlatness) => ~trianglePasses(path)
    /\ (\E i, j \in 1..3 : i # j /\ corners(path)[i] = corners(path)[j])
          => ~trianglePasses(path)
    /\ path \in IntegerInputs /\ trianglePasses(path) => ExactNotFlat(corners(path))
    /\ result.type = "triangle" =>
          \A i, j \in 1..3 : i # j => result.path[i] # result.path[j]

\* C21 witness: two of the three corner candidates of a path of distinct
\* points were the same point and the result was not a triangle.
FlatTriangleWitness ==
  /\ pc = "done"
  /\ Len(path) >= MinTrianglePoints
  /\ corners(path)[1] = corners(path)[2]
  /\ corners(path)[3] # corners(path)[1]
  /\ FGreater(triEdgeRatio(path), TriangleEdgeRatio)
  /\ ~circlePasses(path) /\ ~rectanglePasses(path)
  /\ result = Freehand(path)

-----------------------------------------------------------------------------
(***************************************************************************)
(* Properties of one call of resizeShape, checked under SpecResize.        *)
(***************************************************************************)
\* Every point of after is center + (p - center) * s of the point p at the
\* same place of before, center the centroid of before.
ScaledFromCentroid(before, after, s) ==
  /\ Len(after) = Len(before)
  /\ \E center \in {getCenter(before)} :
       \A i \in 1..Len(before) :
          /\ after[i].lat = FAdd(center.lat, FMul(FSub(before[i].lat, center.lat), s))
          /\ after[i].lng = FAdd(center.lng, FMul(FSub(before[i].lng, center.lng), s))

CentroidSlackOfResize(n) == 2 * n + 8

\* C22 as stated: the resized path is the path scaled from its centroid,
\* point by point, and its centroid is the centroid of the path before.
ResizeKeepsCentroid ==
  pc = "resized" /\ selectedShape = 0 =>
    /\ ScaledFromCentroid(orig, shapes[1].path, factor)
    /\ getCenter(shapes[1].path) = getCenter(orig)

\* C22, within rounding: the resized path is the path scaled from its
\* centroid, point by point and in order, and its centroid is within the
\* accumulated rounding error of the centroid of the path before.
ResizeKeepsCentroidWithinRounding ==
  pc = "resized" /\ selectedShape = 0 =>
    /\ ScaledFromCentroid(orig, shapes[1].path, factor)
    /\ PointsWithin(<<getCenter(shapes[1].path)>>, <<getCenter(orig)>>,
                    CentroidSlackOfResize(Len(orig)),
                    Max(PathUnit(orig), PathUnit(shapes[1].path)))

\* C22 witness: a selected shape was resized, its points moved and the
\* centroid of the new path is not the centroid of the old one.
ResizeKeepsCentroidWitness ==
  /\ pc = "resized"
  /\ selectedShape = 0
  /\ shapes[1].path # orig
  /\ getCenter(shapes[1].path) # getCenter(orig)

-----------------------------------------------------------------------------
(***************************************************************************)
(* Properties of deletion, cancellation and the drawing state, checked     *)
(* under SpecMap.                                                          *)
(***************************************************************************)
\* after is before with exactly the element at index k (from 0) removed.
RemovedAt(before, after, k) ==
  /\ Len(after) = Len(before) - 1
  /\ \A i \in 1..Len(after) : after[i] = IF i <= k THEN before[i] ELSE before[i + 1]

\* C23: deleting the selected shape removes exactly the shape at the selected
\* index, keeps the other shapes and their order, and clears the selection;
\* delete-all empties the store and clears the selection; with no shape
\* selected delete-selected changes nothing.
DeleteRemovesSelected ==
  [][/\ (deleteSelectedShape /\ onShapesChange =>
           /\ selectedShape # -1 /\ selectedShape < Len(shapes)
           /\ RemovedAt(shapes, shapes', selectedShape)
           /\ selectedShape' = -1)
     /\ (deleteAllShapes /\ onShapesChange =>
           shapes' = <<>> /\ selectedShape' = -1)
     /\ (selectedShape = -1 /\ Len(shapes') < Len(shapes) => shapes' = <<>>)]_vars

\* C23 witness: the first of two stored shapes was selected and deleted, the
\* second is what the store holds and nothing is selected.
DeleteRemovesSelectedWitness ==
  /\ called
  /\ Len(view.shapes) = 2 /\ view.selectedShape = 0
  /\ view.shapes[1] # view.shapes[2]
  /\ shapes = <<view.shapes[2]>>
  /\ selectedShape = -1

\* A step that cancels the drag in progress: Escape, or the pencil button.
CancelsDrag == isDrawing /\ (handleKeyDown \/ togglePencilMode)

\* C24: cancelling a drag, by Escape or by switching the pencil tool off
\* while drawing, discards the path in progress, leaves pencil and drawing
\* mode and leaves the store as it is, whatever the number of points
\* collected; and no step taken while no drag is active adds a shape, so no
\* later mouse-up makes a shape of the discarded points.
CancelDiscardsDrag ==
  [][/\ (CancelsDrag =>
           /\ currentPath' = <<>>
           /\ ~isPencilMode' /\ ~isDrawing'
           /\ shapes' = shapes
           /\ ~called' /\ runs' = 0)
     /\ (~isDrawing => Len(shapes') <= Len(shapes))]_vars

\* C24 witness: a drag of more than two points was cancelled: the path is
\* gone, no recognizer ran and the store is the store of before.
CancelDiscardsDragWitness ==
  /\ view.isDrawing /\ Len(view.currentPath) > 2
  /\ ~isDrawing /\ ~isPencilMode /\ currentPath = <<>>
  /\ ~pending /\ runs = 0 /\ ~called
  /\ shapes = view.shapes

\* A mouse-up step that ends the drag in progress.
DragEnds == isDrawing /\ (MapMouseUp \/ handleGlobalMouseUp)

\* C25: every mouse-up that ends an active drag leaves pencil mode, clears
\* isDrawing and empties the path in progress, whether or not a shape was
\* saved; after a successful drag the selection is the index of the shape
\* just appended, the last of the store.
MouseUpResetsDrawing ==
  [][DragEnds =>
       /\ ~isPencilMode' /\ ~isDrawing' /\ currentPath' = <<>>
       /\ (Len(shapes') > Len(shapes) =>
             /\ selectedShape' = Len(shapes') - 1
             /\ shapes'[selectedShape' + 1].createdAt = now
             /\ shapes'[selectedShape' + 1].path = recognizeShape(currentPath).path)
       /\ (Len(shapes') = Len(shapes) => selectedShape' = selectedShape)]_vars

\* C25 witness: a drag that saved a second shape has ended: the component is
\* out of pencil and drawing mode, the path is empty and the second shape is
\* selected.
MouseUpResetsDrawingWitness ==
  /\ view.isDrawing /\ view.isPencilMode /\ Len(view.currentPath) > 2
  /\ ~isDrawing /\ ~isPencilMode /\ currentPath = <<>>
  /\ Len(view.shapes) = 1 /\ Len(shapes) = 2
  /\ selectedShape = 1

\* C26: in every reachable state isDrawing implies isPencilMode, and the
\* path in progress is non-empty exactly when isDrawing is true; a mouse
\* move that arrives when no drag is active adds no point.
DrawingStateInvariant ==
  /\ [](/\ isDrawing => isPencilMode
        /\ currentPath # <<>> <=> isDrawing)
  /\ [][handleMapMouseMove /\ ~isDrawing => currentPath' = currentPath]_vars

\* C26 witness: a drag is in progress in pencil mode and mouse moves have
\* added points to its path.
DrawingStateWitness ==
  /\ Ready
  /\ isDrawing /\ isPencilMode
  /\ Len(currentPath) >= 2

\* C27: in every reachable state with a map loaded, the map's draggable
\* option is true when no drag is in progress, and it is false only during a
\* drag, between a pencil-mode mouse-down and the mouse-up, Escape or pencil
\* toggle that ends it.
PanningRestored ==
  map = "loaded" =>
    /\ ~isDrawing => draggable
    /\ ~draggable => isDrawing /\ isPencilMode

\* C27 witness: a drag that had locked the map has ended without a shape
\* and the map can be panned again.
PanningRestoredWitness ==
  /\ map = "loaded"
  /\ view.isDrawing /\ ~isDrawing
  /\ ~pending /\ runs = 0
  /\ Len(view.currentPath) <= 2
  /\ draggable

\* C28: in every reachable state selectedShape is null or an index below the
\* number of shapes in the store, and in pencil mode it is null.
SelectionValid ==
  /\ selectedShape = -1 \/ (0 <= selectedShape /\ selectedShape < Len(shapes))
  /\ isPencilMode => selectedShape = -1

\* C28 witness: the second of two shapes, selected, has been deleted: nothing
\* is selected and one shape is left.
SelectionValidWitness ==
  /\ called
  /\ Len(view.shapes) = 2 /\ view.selectedShape = 1
  /\ Len(shapes) = 1
  /\ selectedShape = -1

-----------------------------------------------------------------------------
(***************************************************************************)
(* Properties of the degenerate cases of the rectangle and triangle tests, *)
(* checked under SpecRecognize.                                            *)
(***************************************************************************)
SharesLatitude(p) == \A i \in 1..Len(p) : p[i].lat = p[1].lat

SharesLongitude(p) == \A i \in 1..Len(p) : p[i].lng = p[1].lng

\* C29: every path of at least 4 points that all share one latitude, or all
\* share one longitude, but do not all coincide, and that does not pass the
\* circle test, comes back as a rectangle of zero area, two pairs of its four
\* corners being the same point.
DegenerateRectangle ==
  pc = "done" /\ Len(path) >= MinRectanglePoints /\ ~AllCoincide(path)
    /\ ~circlePasses(path) =>
    /\ SharesLatitude(path) =>
         /\ result.type = "rectangle"
         /\ result.path[1] = result.path[4] /\ result.path[2] = result.path[3]
         /\ result.path[1] # result.path[2]
    /\ SharesLongitude(path) =>
         /\ result.type = "rectangle"
         /\ result.path[1] = result.path[2] /\ result.path[3] = result.path[4]
         /\ result.path[1] # result.path[4]

\* C29 witness: ten or more points of one latitude, on which the circle test
\* ran and failed, came back as four corners of which two pairs coincide.
DegenerateRectangleWitness ==
  /\ pc = "done"
  /\ Len(path) >= MinCirclePoints
  /\ SharesLatitude(path) /\ ~AllCoincide(path)
  /\ ~circlePasses(path)
  /\ result.type = "rectangle"
  /\ result.path[1] = result.path[4] /\ result.path[2] = result.path[3]

\* r is the exact sum of a and b: no rounding took place.
ExactSum(a, b, r) ==
  LET q == Min(Min(a.e, b.e), r.e)
  IN IsFinite(r) /\ Fix(a, q) + Fix(b, q) = Fix(r, q)

\* The scores -lat - lng and -lat + lng of every point of p are exact.
ScoresExact(p) ==
  \A i \in 1..Len(p) :
     /\ ExactSum(FNeg(p[i].lat), FNeg(p[i].lng), FSub(FNeg(p[i].lat), p[i].lng))
     /\ ExactSum(FNeg(p[i].lat), p[i].lng, FAdd(FNeg(p[i].lat), p[i].lng))

SameCorners(p) == corners(p)[1] = corners(p)[2] /\ corners(p)[2] = corners(p)[3]

maxDistOf(p) == maxDist(cornerDists(corners(p)))

\* C30 as stated: the three corner candidates are one point, that is
\* maxDist = 0, exactly when all points of the path have the same
\* coordinates; with two distinct points maxDist > 0 and minDist / maxDist
\* is a number.
CornersCoincideIffPathDoes ==
  pc = "done" =>
    /\ SameCorners(path) <=> maxDistOf(path) = Zero
    /\ SameCorners(path) <=> AllCoincide(path)
    /\ ~AllCoincide(path) =>
         FGreater(maxDistOf(path), Zero) /\ flatness(path) # NaN

\* C30 for exact scores: the three corner candidates are one point exactly
\* when maxDist = 0; they are one point when all points of the path have the
\* same coordinates; and when the scores -lat - lng and -lat + lng of the
\* points are computed without rounding, a path with two distinct points has
\* two distinct candidates, maxDist > 0 and minDist / maxDist a number.
CornersCoincideWhenScoresExact ==
  pc = "done" =>
    /\ SameCorners(path) <=> maxDistOf(path) = Zero
    /\ AllCoincide(path) => SameCorners(path)
    /\ ScoresExact(path) /\ ~AllCoincide(path) =>
         /\ ~SameCorners(path)
         /\ FGreater(maxDistOf(path), Zero) /\ flatness(path) # NaN

\* C30 witness: in a path of three or more points, not all the same and of
\* exact scores, two of the three candidates are one point, the third is
\* another, maxDist is positive and minDist / maxDist is 0.
CornersCoincideWitness ==
  /\ pc = "done"
  /\ Len(path) >= MinTrianglePoints
  /\ ScoresExact(path) /\ ~AllCoincide(path)
  /\ \E i, j \in 1..3 : i # j /\ corners(path)[i] = corners(path)[j]
  /\ FGreater(maxDistOf(path), Zero)
  /\ flatness(path) = Zero

=============================================================================
